---- MODULE Spec2Model ----
(***************************************************************************)
(* Model of the ChatGPT web scraper (index_remote.js and its modules).     *)
(*                                                                         *)
(* runScraper is an async function: it runs atomically between two awaits. *)
(* `pc` names the await the pipeline is suspended on; an action is the     *)
(* settlement of that await (resolved or rejected) together with all the   *)
(* synchronous code that runs up to the next await.  Signal handlers are   *)
(* further async functions run by the same event loop, so they interleave  *)
(* with the pipeline exactly at the awaits.                                *)
(***************************************************************************)
EXTENDS Integers, Sequences, FiniteSets, TLC

\* ---------------------------------------------------------------- bounds
MaxChecks == 3          \* ticks of the polling loop explored
MaxSignals == 1         \* SIGINT/SIGTERM deliveries explored
RandDenom == 2          \* Math.random() is drawn from {0/RandDenom, ...}

\* ------------------------------------------------------ program constants
CHECK_INTERVAL == 1000
DEBOUNCE_DELAY == 500
SETTLE_DELAY == 2000
KEEP_OPEN_DELAY == 5000
EXIT_INTERRUPTED == 130
NotExited == -1

Null == "null"
Browser == "browser"
SEARCH_BUTTON == "[data-testid=composer-button-search]"
PROMPT_TEXTAREA == "#prompt-textarea"
SUBMIT_BUTTON == "[id=composer-submit-button]"
STOP_BUTTON == "[data-testid=stop-button]"
TURN_ARTICLE == "article[data-testid^=conversation-turn-]"

Settlements == {"resolved", "rejected"}
SignalNames == {"SIGINT", "SIGTERM"}
Steps == {"setup", "navigation", "dispatch", "completion", "extraction",
          "persistence", "cleanup"}

\* Strings the program inspects are sequences of one-character strings.
Queries == { <<>>, <<"H", "i">> }
EmptySentinel ==
  <<"E","r","r","o","r",":"," ","E","m","p","t","y"," ",
    "r","e","s","p","o","n","s","e"," ","e","x","t","r","a","c","t","e","d">>
Whitespace == {" ", "\n", "\t"}
NotFoundSentinel ==
  <<"E","r","r","o","r",":"," ","C","o","u","l","d"," ","n","o","t"," ",
    "f","i","n","d"," ","a","s","s","i","s","t","a","n","t"," ",
    "r","e","s","p","o","n","s","e"," ","a","r","t","i","c","l","e">>
NoResult == [text |-> <<>>, links |-> <<>>]
NoPending == [sanitizedQuery |-> <<>>, stamp |-> <<>>, timestamp |-> <<>>]

\* ------------------------------------------------------------ the page DOM
\* A document is the sequence of its nodes in document order; `parent` is
\* the index of the parent node, 0 for a child of the document body.  Text
\* nodes have tag "#text".  A data-testid is a pair <<prefix, rest>>.
\* An href attribute is a pair <<origin, path>>: NoHref when the attribute is
\* absent, an empty origin when the URL is relative.
NoHref == <<"", "">>
Node(tag, parent, text, testid, href) ==
  [tag |-> tag, parent |-> parent, text |-> text, testid |-> testid,
   href |-> href]
NoTestId == <<"", "">>
Element(tag, parent) == Node(tag, parent, <<>>, NoTestId, NoHref)
Text(parent, chars) == Node("#text", parent, chars, NoTestId, NoHref)
TurnTestId(n) == <<"conversation-turn-", n>>
PillTestId == <<"webpage-citation-pill", "">>
BASE_URL == "https://chatgpt.com"

HeadingTags == {"h1", "h2", "h3", "h4", "h5", "h6"}
\* 'p, h1, h2, h3, h4, h5, h6, li, span, code, pre'
TextTags == {"p", "li", "span", "code", "pre"} \cup HeadingTags
\* ['p', 'h1', 'h2', 'h3', 'h4', 'h5', 'h6', 'li']
ParentTextTags == {"p", "li"} \cup HeadingTags

\* --- building documents: a block is a node list whose parents are relative
\* to the block (0 is the element the block is attached to)
Attach(block, base, container) ==
  [i \in 1 .. Len(block) |->
     [block[i] EXCEPT !.parent = IF @ = 0 THEN container ELSE @ + base]]

RECURSIVE Children(_, _, _)
Children(blocks, base, container) ==
  IF blocks = <<>> THEN <<>>
  ELSE Attach(Head(blocks), base, container)
         \o Children(Tail(blocks), base + Len(Head(blocks)), container)

\* <article data-testid=...> holding the blocks
ArticleOf(testid, blocks) ==
  <<Node("article", 0, <<>>, testid, NoHref)>> \o Children(blocks, 1, 1)

RECURSIVE DocumentOf(_)
\* a document body holding the articles, in order
DocumentOf(articles) ==
  IF articles = <<>> THEN <<>>
  ELSE Head(articles) \o Attach(DocumentOf(Tail(articles)), Len(Head(articles)), 0)

Hello == <<"H", "e", "l", "l", "o">>
Body == <<"B", "o", "d", "y">>
Title == <<"T", "i", "t", "l", "e">>
RawText == <<"r", "a", "w", " ", "t", "e", "x", "t">>
A_EXAMPLE == <<"https://a.example", "/">>
B_EXAMPLE == <<"https://b.example", "/">>

Anchor(parent, href) == Node("a", parent, <<>>, NoTestId, href)
Pill(parent) == Node("span", parent, <<>>, PillTestId, NoHref)

P_HELLO == <<Element("p", 0), Text(1, Hello)>>
P_BODY == <<Element("p", 0), Text(1, <<" ">> \o Body \o <<"\n">>)>>
H2_TITLE == <<Element("h2", 0), Text(1, Title)>>
UL_LI == <<Element("ul", 0), Element("li", 1), Element("span", 2),
           Text(3, <<"O", "n", "e">>)>>
P_SPAN == <<Element("p", 0), Text(1, <<"a", " ">>), Element("span", 1),
            Text(3, <<"b">>)>>
DIV_SPAN == <<Element("div", 0), Element("span", 1), Text(2, <<" ", "i", "n", " ">>)>>
P_EM_SPAN == <<Element("p", 0), Element("em", 1), Element("span", 2),
               Text(3, <<"d", "e", "e", "p">>)>>
PRE_CODE == <<Element("pre", 0), Element("code", 1), Text(2, <<"x", "=", "1">>)>>
DIV_RAW == <<Element("div", 0), Text(1, <<" ">> \o RawText \o <<" ">>)>>
DIV_BLANK == <<Element("div", 0), Text(1, <<" ", "\n">>)>>
SPAN_EMPTY == <<Element("span", 0)>>
PILL_A == <<Pill(0), Anchor(1, A_EXAMPLE), Text(2, <<"1">>)>>
PILL_RELATIVE == <<Pill(0), Anchor(1, <<"", "/cite">>)>>
PILL_SECOND_ANCHOR == <<Pill(0), Anchor(1, NoHref), Anchor(1, B_EXAMPLE)>>
PILL_NO_ANCHOR == <<Pill(0), Text(1, <<"2">>)>>

HelloDocument == DocumentOf(<<ArticleOf(TurnTestId("2"), <<P_HELLO>>)>>)
\* the documents the pipeline meets when page.evaluate runs: one answer, an
\* answer with a citation after an earlier turn, a blank answer, and a page
\* whose turns are gone since the wait for them resolved
PipelineDocuments ==
  { HelloDocument,
    DocumentOf(<<ArticleOf(TurnTestId("1"), <<H2_TITLE>>),
                 ArticleOf(TurnTestId("2"), <<P_HELLO, PILL_RELATIVE>>)>>),
    DocumentOf(<<ArticleOf(TurnTestId("2"), <<DIV_BLANK, PILL_RELATIVE>>)>>),
    <<>> }

VARIABLES
  pc,               \* the await runScraper is suspended on
  query,            \* process.argv[2]
  browser,          \* runScraper's local `browser`
  globalBrowser,    \* module-level `globalBrowser`
  exitCode,         \* runScraper's local `exitCode`
  exitStatus,       \* code passed to process.exit, NotExited while running
  sessionCreated,   \* bb.sessions.create has resolved
  connected,        \* puppeteer.connect has resolved
  closeLog,         \* callers of closeBrowser, in call order
  awaiting,         \* handleInterrupt instances suspended on closeBrowser
  signals,          \* signals handled so far, with the session state seen
  stopButtonExists, \* waitForResponseComplete's local
  checkCount,       \* waitForResponseComplete's local
  log,              \* page operations and fixed delays, in program order
  jitter,           \* the randomised delay that has just elapsed, in ms
  okSteps,          \* pipeline steps that have completed successfully
  responseData,     \* what extractResponseText returned
  files,            \* records written by saveToFile
  dom,              \* the document page.evaluate ran in
  pending           \* filename parts and timestamp saveToFile has computed

vars == <<pc, query, browser, globalBrowser, exitCode, exitStatus,
          sessionCreated, connected, closeLog, awaiting, signals,
          stopButtonExists, checkCount, log, jitter, okSteps,
          responseData, files, dom, pending>>

\* one settled awaited operation (or the completion log line)
Ev(op, arg, res, ms) == [op |-> op, arg |-> arg, res |-> res, ms |-> ms]

\* randomDelay: Math.floor(Math.random() * (max - min + 1)) + min
RandomDelay(min, max, r) == ((r * (max - min + 1)) \div RandDenom) + min
\* navigateToUrl: Math.floor(Math.random() * 2000) + 1000
NavigationDelay(r) == ((r * 2000) \div RandDenom) + 1000
\* typeQuery: Math.floor(Math.random() * 50) + 30
KeystrokeDelay(r) == ((r * 50) \div RandDenom) + 30

Init ==
  /\ pc = "start"
  /\ query \in Queries
  /\ browser = Null
  /\ globalBrowser = Null
  /\ exitCode = 0
  /\ exitStatus = NotExited
  /\ sessionCreated = FALSE
  /\ connected = FALSE
  /\ closeLog = <<>>
  /\ awaiting = 0
  /\ signals = <<>>
  /\ stopButtonExists = TRUE
  /\ checkCount = 0
  /\ log = <<>>
  /\ jitter = 0
  /\ okSteps = {}
  /\ responseData = NoResult
  /\ files = <<>>
  /\ dom = <<>>
  /\ pending = NoPending

Running == exitStatus = NotExited

setupVars == <<browser, globalBrowser, sessionCreated, connected>>
loopVars == <<stopButtonExists, checkCount>>
outVars == <<responseData, files, dom, pending>>
sigVars == <<awaiting, signals>>

\* ------------------------------------------------------------ runScraper
\* `return code` leaving the try statement: the finally block runs, and when
\* there is no browser the returned promise resolves and .then exits.
Finally(code) ==
  /\ exitCode' = code
  /\ IF browser # Null
     THEN /\ closeLog' = Append(closeLog, "finally")
          /\ pc' = "finallyClose"
          /\ UNCHANGED exitStatus
     ELSE /\ pc' = "done"
          /\ exitStatus' = code
          /\ UNCHANGED closeLog

\* catch (error) { exitCode = 1 }
CatchCode_Success == exitCode
CatchCode == 1

\* an awaited operation rejected somewhere below runScraper's try block
Throw(events) ==
  /\ log' = log \o events
  /\ Finally(CatchCode)

Ok(next, events) ==
  /\ pc' = next
  /\ log' = log \o events
  /\ UNCHANGED <<exitCode, exitStatus, closeLog>>

\* an awaited page or file operation that either resolves or rejects
PageOp_Swallow(at, op, arg, ms, next) ==
  /\ Running
  /\ pc = at
  /\ \E s \in Settlements :
       Ok(next, <<Ev(op, arg, IF s = "resolved" THEN "ok" ELSE "error", ms)>>)
  /\ jitter' = 0
  /\ UNCHANGED <<query, setupVars, loopVars, outVars, sigVars, okSteps>>
PageOp(at, op, arg, ms, next) ==
  /\ Running
  /\ pc = at
  /\ \E s \in Settlements :
       IF s = "resolved"
       THEN Ok(next, <<Ev(op, arg, "ok", ms)>>)
       ELSE Throw(<<Ev(op, arg, "error", ms)>>)
  /\ jitter' = 0
  /\ UNCHANGED <<query, setupVars, loopVars, outVars, sigVars, okSteps>>

\* await randomDelay(min, max)
Jitter(at, min, max, next) ==
  /\ Running
  /\ pc = at
  /\ \E r \in 0 .. RandDenom - 1 : jitter' = RandomDelay(min, max, r)
  /\ Ok(next, <<>>)
  /\ UNCHANGED <<query, setupVars, loopVars, outVars, sigVars, okSteps>>

\* if (!query): process.argv[2] is undefined or the empty string
QueryMissing_Never(q) == FALSE
QueryMissing(q) == q = <<>>

\* the synchronous head of runScraper, up to its first await
Start ==
  /\ Running
  /\ pc = "start"
  /\ IF QueryMissing(query)
     THEN /\ pc' = "done"
          /\ exitStatus' = 1
          /\ UNCHANGED <<exitCode, closeLog, log>>
     ELSE \E apiKey \in BOOLEAN, projectId \in BOOLEAN :
            IF apiKey /\ projectId
            THEN Ok("create", <<>>)
            ELSE Throw(<<Ev("env", "", "error", 0)>>)
  /\ UNCHANGED <<query, setupVars, loopVars, outVars, sigVars, jitter, okSteps>>

\* ----------------------------------------------------------- setupBrowser
SessionsCreate ==
  /\ Running
  /\ pc = "create"
  /\ \E s \in Settlements :
       IF s = "resolved"
       THEN /\ sessionCreated' = TRUE
            /\ Ok("connect", <<Ev("sessions.create", "", "ok", 0)>>)
       ELSE /\ UNCHANGED sessionCreated
            /\ Throw(<<Ev("sessions.create", "", "error", 0)>>)
  /\ UNCHANGED <<query, browser, globalBrowser, connected, loopVars, outVars,
                 sigVars, jitter, okSteps>>

PuppeteerConnect ==
  /\ Running
  /\ pc = "connect"
  /\ \E s \in Settlements :
       IF s = "resolved"
       THEN /\ connected' = TRUE
            /\ Ok("pages", <<Ev("connect", "", "ok", 0)>>)
       ELSE /\ UNCHANGED connected
            /\ Throw(<<Ev("connect", "", "error", 0)>>)
  /\ UNCHANGED <<query, browser, globalBrowser, sessionCreated, loopVars,
                 outVars, sigVars, jitter, okSteps>>

\* const page = pages[0] || (await browser.newPage())
BrowserPages ==
  /\ Running
  /\ pc = "pages"
  /\ \E s \in Settlements, hasPage \in BOOLEAN :
       IF s = "resolved"
       THEN Ok(IF hasPage THEN "evalOnNew" ELSE "newPage",
               <<Ev("pages", "", "ok", 0)>>)
       ELSE Throw(<<Ev("pages", "", "error", 0)>>)
  /\ UNCHANGED <<query, setupVars, loopVars, outVars, sigVars, jitter, okSteps>>

NewPage == PageOp("newPage", "newPage", "", 0, "evalOnNew")

\* setupBrowser returns; runScraper stores the browser in both references
EvaluateOnNewDocument ==
  /\ Running
  /\ pc = "evalOnNew"
  /\ \E s \in Settlements :
       IF s = "resolved"
       THEN /\ browser' = Browser
            /\ globalBrowser' = Browser
            /\ okSteps' = okSteps \cup {"setup"}
            /\ Ok("goto", <<Ev("evaluateOnNewDocument", "", "ok", 0)>>)
       ELSE /\ UNCHANGED <<browser, globalBrowser, okSteps>>
            /\ Throw(<<Ev("evaluateOnNewDocument", "", "error", 0)>>)
  /\ UNCHANGED <<query, sessionCreated, connected, loopVars, outVars, sigVars,
                 jitter>>

SetupBrowser ==
  \/ SessionsCreate
  \/ PuppeteerConnect
  \/ BrowserPages
  \/ NewPage
  \/ EvaluateOnNewDocument

\* ---------------------------------------------------------- navigateToUrl
NavigateToUrl ==
  \/ PageOp("goto", "goto", "https://chatgpt.com/", 60000, "navDelay")
  \/ /\ Running
     /\ pc = "navDelay"
     /\ \E r \in 0 .. RandDenom - 1 : jitter' = NavigationDelay(r)
     /\ okSteps' = okSteps \cup {"navigation"}
     /\ Ok("waitSearch", <<>>)
     /\ UNCHANGED <<query, setupVars, loopVars, outVars, sigVars>>
\* ------------------------------------------------------ submitQueryWorkflow
ClickSearchButton_Unwaited ==
  \/ PageOp("waitSearch", "click", SEARCH_BUTTON, 0, "delaySearch2")
  \/ Jitter("delaySearch2", 800, 1500, "waitText")
ClickSearchButton ==
  \/ PageOp("waitSearch", "waitForSelector", SEARCH_BUTTON, 30000, "delaySearch1")
  \/ Jitter("delaySearch1", 500, 1000, "clickSearch")
  \/ PageOp("clickSearch", "click", SEARCH_BUTTON, 0, "delaySearch2")
  \/ Jitter("delaySearch2", 800, 1500, "waitText")

TypeQuery ==
  \/ PageOp("waitText", "waitForSelector", PROMPT_TEXTAREA, 30000, "clickText")
  \/ PageOp("clickText", "click", PROMPT_TEXTAREA, 0, "delayText1")
  \/ Jitter("delayText1", 300, 600, "type")
  \/ /\ \E r \in 0 .. RandDenom - 1 :
          PageOp("type", "type", PROMPT_TEXTAREA, KeystrokeDelay(r), "delayText2")
  \/ Jitter("delayText2", 500, 1000, "waitSubmit")

\* let stopButtonExists = true
InitialStopButtonExists_False == FALSE
InitialStopButtonExists == TRUE

\* while (stopButtonExists)
LoopCondition_Capped(exists, count) == exists /\ count < 2
LoopCondition(exists, count) == exists

\* the head of one loop iteration: checkCount++ and the tick's page.$ call,
\* or the loop exit into the settle delay
LoopHead_AtLeastTwo(exists, count) ==
  IF exists \/ count < 2
  THEN /\ checkCount' = count + 1
       /\ pc' = "tick"
  ELSE /\ checkCount' = count
       /\ pc' = "settle"
LoopHead(exists, count) ==
  IF LoopCondition(exists, count)
  THEN /\ checkCount' = count + 1
       /\ pc' = "tick"
  ELSE /\ checkCount' = count
       /\ pc' = "settle"

SubmitQuery ==
  \/ PageOp("waitSubmit", "waitForSelector", SUBMIT_BUTTON, 10000, "delaySubmit1")
  \/ Jitter("delaySubmit1", 300, 700, "clickSubmit")
  \/ PageOp("clickSubmit", "click", SUBMIT_BUTTON, 0, "delaySubmit2")
  \/ \* the workflow returns and waitForResponseComplete starts
     /\ Running
     /\ pc = "delaySubmit2"
     /\ \E r \in 0 .. RandDenom - 1 : jitter' = RandomDelay(1000, 2000, r)
     /\ okSteps' = okSteps \cup {"dispatch"}
     /\ stopButtonExists' = InitialStopButtonExists
     /\ LoopHead(InitialStopButtonExists, 0)
     /\ UNCHANGED <<log, exitCode, exitStatus, closeLog>>
     /\ UNCHANGED <<query, setupVars, outVars, sigVars>>

\* -------------------------------------------------- waitForResponseComplete
Observations == {"present", "absent", "error"}

\* if (stopButton)
StopButtonFound_Inverted(obs) == obs # "present"
StopButtonFound(obs) == obs = "present"

\* if (!confirmGone) stopButtonExists = false; else stopButtonExists = true
StillGenerating_Ignored(obs) == FALSE
StillGenerating(obs) == obs = "present"

\* const stopButton = await page.$(...) settles
Tick ==
  /\ Running
  /\ pc = "tick"
  /\ \E obs \in Observations :
       IF obs = "error"
       THEN /\ Throw(<<Ev("$", "tick", "error", 0)>>)
            /\ UNCHANGED stopButtonExists
       ELSE /\ log' = log \o <<Ev("$", "tick", obs, 0)>>
            /\ UNCHANGED <<exitCode, exitStatus, closeLog>>
            /\ IF StopButtonFound(obs)
               THEN /\ stopButtonExists' = TRUE
                    /\ pc' = "pollSleep"
               ELSE /\ UNCHANGED stopButtonExists
                    /\ pc' = "debounce"
  /\ jitter' = 0
  /\ UNCHANGED <<query, setupVars, checkCount, outVars, sigVars, okSteps>>

\* await delay(500) settles and the confirmation page.$ is called
Debounce_NoAwait ==
  /\ Running
  /\ pc = "debounce"
  /\ Ok("confirm", <<>>)
  /\ UNCHANGED <<query, setupVars, loopVars, outVars, sigVars, jitter, okSteps>>
Debounce ==
  /\ Running
  /\ pc = "debounce"
  /\ Ok("confirm", <<Ev("delay", "", "ok", DEBOUNCE_DELAY)>>)
  /\ UNCHANGED <<query, setupVars, loopVars, outVars, sigVars, jitter, okSteps>>

\* const confirmGone = await page.$(...) settles
Confirm ==
  /\ Running
  /\ pc = "confirm"
  /\ \E obs \in Observations :
       IF obs = "error"
       THEN /\ Throw(<<Ev("$", "confirm", "error", 0)>>)
            /\ UNCHANGED loopVars
       ELSE /\ stopButtonExists' = StillGenerating(obs)
            /\ UNCHANGED <<exitCode, exitStatus, closeLog>>
            /\ IF stopButtonExists'
               THEN /\ log' = log \o <<Ev("$", "confirm", obs, 0)>>
                    /\ pc' = "pollSleep"
                    /\ UNCHANGED checkCount
               ELSE /\ log' = log \o <<Ev("$", "confirm", obs, 0),
                                       Ev("COMPLETE", "", "ok", 0)>>
                    /\ LoopHead(FALSE, checkCount)
  /\ UNCHANGED <<query, setupVars, outVars, sigVars, jitter, okSteps>>

\* await delay(checkInterval) settles and the loop condition is tested
PollSleep ==
  /\ Running
  /\ pc = "pollSleep"
  /\ checkCount < MaxChecks
  /\ log' = log \o <<Ev("delay", "", "ok", CHECK_INTERVAL)>>
  /\ LoopHead(stopButtonExists, checkCount)
  /\ UNCHANGED <<exitCode, exitStatus, closeLog, stopButtonExists>>
  /\ UNCHANGED <<query, setupVars, outVars, sigVars, jitter, okSteps>>

\* await delay(2000) settles; waitForResponseComplete returns and
\* extractResponseText calls waitForSelector
SettleDelay ==
  /\ Running
  /\ pc = "settle"
  /\ okSteps' = okSteps \cup {"completion"}
  /\ Ok("waitTurn", <<Ev("delay", "", "ok", SETTLE_DELAY)>>)
  /\ UNCHANGED <<query, setupVars, loopVars, outVars, sigVars, jitter>>

WaitForResponseComplete == Tick \/ Debounce \/ Confirm \/ PollSleep \/ SettleDelay
\* ------------------------------------------------------ extractResponseText
RECURSIVE TrimLeft(_)
TrimLeft(t) ==
  IF t # <<>> /\ Head(t) \in Whitespace THEN TrimLeft(Tail(t)) ELSE t

RECURSIVE TrimRight(_)
TrimRight(t) ==
  IF t # <<>> /\ t[Len(t)] \in Whitespace
  THEN TrimRight(SubSeq(t, 1, Len(t) - 1))
  ELSE t

\* String.prototype.trim
Trim(t) == TrimRight(TrimLeft(t))

\* if (!responseData.text || responseData.text.trim() === '')
IsEmptyResponse_Never(data) == FALSE
IsEmptyResponse(data) == data.text = <<>> \/ Trim(data.text) = <<>>

\* what extractResponseText returns for the evaluated responseData
ExtractionResult(data) ==
  IF IsEmptyResponse(data)
  THEN [text |-> EmptySentinel, links |-> <<>>]
  ELSE data

\* --- the function evaluated in the page
RECURSIVE IsDescendant(_, _, _)
\* node i lies strictly below node root (0 is the document)
IsDescendant(d, i, root) ==
  IF root = 0 THEN TRUE
  ELSE IF d[i].parent = 0 THEN FALSE
  ELSE IF d[i].parent = root THEN TRUE
  ELSE IsDescendant(d, d[i].parent, root)

Indices(d) == [i \in 1 .. Len(d) |-> i]

\* 'article[data-testid^="conversation-turn-"]'
IsTurn(n) == n.tag = "article" /\ n.testid[1] = "conversation-turn-"
\* 'span[data-testid="webpage-citation-pill"]'
IsCitationPill(n) == n.tag = "span" /\ n.testid = PillTestId

CITATION_PILL == "span[data-testid=webpage-citation-pill]"
TEXT_ELEMENTS == "p, h1, h2, h3, h4, h5, h6, li, span, code, pre"

\* the element n matches the selector
Matches(n, selector) ==
  CASE selector = TURN_ARTICLE -> IsTurn(n)
    [] selector = CITATION_PILL -> IsCitationPill(n)
    [] selector = TEXT_ELEMENTS -> n.tag \in TextTags
    [] selector = "a" -> n.tag = "a"

\* root.querySelectorAll: the matching descendants, in document order
QuerySelectorAll(d, root, selector) ==
  SelectSeq(Indices(d), LAMBDA i : /\ Matches(d[i], selector)
                                   /\ IsDescendant(d, i, root))

RECURSIVE Flatten(_)
Flatten(parts) ==
  IF parts = <<>> THEN <<>> ELSE Head(parts) \o Flatten(Tail(parts))

\* el.textContent
TextContent(d, el) ==
  LET below == SelectSeq(Indices(d), LAMBDA i : /\ d[i].tag = "#text"
                                                /\ IsDescendant(d, i, el))
  IN  Flatten([k \in 1 .. Len(below) |-> d[below[k]].text])

\* articles[articles.length - 1]
SelectTurn_First(turns) == turns[1]
SelectTurn(turns) == turns[Len(turns)]

\* aTag.href: the resolved URL, empty without an href attribute
Href(n) ==
  IF n.href = NoHref THEN NoHref
  ELSE IF n.href[1] = "" THEN <<BASE_URL, n.href[2]>>
  ELSE n.href

\* pill.querySelector('a'); if (aTag && aTag.href) links.push(aTag.href)
PillLinks_AnyAnchor(d, pill) ==
  LET anchors == QuerySelectorAll(d, pill, "a")
      urls == SelectSeq([k \in 1 .. Len(anchors) |-> Href(d[anchors[k]])],
                        LAMBDA u : u # NoHref)
  IN  IF urls = <<>> THEN <<>> ELSE <<urls[1]>>
PillLinks(d, pill) ==
  LET anchors == QuerySelectorAll(d, pill, "a")
  IN  IF anchors # <<>> /\ Href(d[anchors[1]]) # NoHref
      THEN <<Href(d[anchors[1]])>>
      ELSE <<>>

\* citationPills.forEach(...)
CitationLinks(d, article) ==
  LET pills == QuerySelectorAll(d, article, CITATION_PILL)
  IN  Flatten([k \in 1 .. Len(pills) |-> PillLinks(d, pills[k])])

RECURSIVE Repeat(_, _)
\* String.prototype.repeat
Repeat(c, n) == IF n = 0 THEN <<>> ELSE <<c>> \o Repeat(c, n - 1)

\* '='.repeat(content.length)
Underline_Fixed(content) == Repeat("=", 3)
Underline(content) == Repeat("=", Len(content))

\* the bullet marker as the source file spells it
BULLET == <<"\n", "U+00E2", "U+20AC", "U+00A2", " ">>
\* a code fence: three U+0060 characters
FENCE == <<"U+0060", "U+0060", "U+0060">>

\* parentIsTextElement
ParentIsTextElement_Never(d, el) == FALSE
ParentIsTextElement(d, el) ==
  d[el].parent # 0 /\ d[d[el].parent].tag \in ParentTextTags

\* what one iteration of textElements.forEach appends to text
Fragment(d, el) ==
  LET tagName == d[el].tag
      content == Trim(TextContent(d, el))
  IN  IF content = <<>> THEN <<>>
      ELSE IF tagName \in HeadingTags
      THEN <<"\n", "\n">> \o content \o <<"\n">> \o Underline(content) \o <<"\n">>
      ELSE IF tagName = "li"
      THEN BULLET \o content
      ELSE IF tagName \in {"pre", "code"}
      THEN <<"\n">> \o FENCE \o <<"\n">> \o content \o <<"\n">> \o FENCE \o <<"\n">>
      ELSE IF ~ParentIsTextElement(d, el)
      THEN <<"\n">> \o content
      ELSE <<>>

\* if (textElements.length === 0)
UseFallback_WhenSilent(d, textElements) ==
  \A k \in 1 .. Len(textElements) : Fragment(d, textElements[k]) = <<>>
UseFallback(d, textElements) == Len(textElements) = 0

\* extractText(element)
ExtractText(d, element) ==
  LET textElements == QuerySelectorAll(d, element, TEXT_ELEMENTS)
  IN  IF UseFallback(d, textElements)
      THEN Trim(TextContent(d, element))
      ELSE Trim(Flatten([k \in 1 .. Len(textElements) |->
                           Fragment(d, textElements[k])]))

\* the function passed to page.evaluate, applied to the document d
EvaluateInPage(d) ==
  LET articles == QuerySelectorAll(d, 0, TURN_ARTICLE)
  IN  IF articles = <<>>
      THEN [text |-> NotFoundSentinel, links |-> <<>>]
      ELSE [text |-> ExtractText(d, SelectTurn(articles)),
            links |-> CitationLinks(d, SelectTurn(articles))]

\* what extractResponseText returns in each of the documents
ExtractionOn(documents) ==
  { [dom |-> d, result |-> ExtractionResult(EvaluateInPage(d))] :
      d \in documents }

PipelineExtraction == ExtractionOn(PipelineDocuments)

\* page.evaluate settles in one of the documents of `extraction`; the result
\* is returned and saveToFile calls mkdir
PageEvaluate(extraction) ==
  /\ Running
  /\ pc = "evaluate"
  /\ \E s \in Settlements, e \in extraction :
       IF s = "resolved"
       THEN /\ dom' = e.dom
            /\ responseData' = e.result
            /\ okSteps' = okSteps \cup {"extraction"}
            /\ Ok("mkdir", <<Ev("evaluate", "", "ok", 0)>>)
       ELSE /\ UNCHANGED <<dom, responseData, okSteps>>
            /\ Throw(<<Ev("evaluate", "", "error", 0)>>)
  /\ UNCHANGED <<query, setupVars, loopVars, files, pending, sigVars, jitter>>

ExtractResponseText ==
  \/ PageOp("waitTurn", "waitForSelector", TURN_ARTICLE, 10000, "evaluate")
  \/ PageEvaluate(PipelineExtraction)

\* --------------------------------------------------------------- saveToFile
FILENAME_QUERY_CHARS == 50
LowerCase ==
  <<"a","b","c","d","e","f","g","h","i","j","k","l","m",
    "n","o","p","q","r","s","t","u","v","w","x","y","z">>
UpperCase ==
  <<"A","B","C","D","E","F","G","H","I","J","K","L","M",
    "N","O","P","Q","R","S","T","U","V","W","X","Y","Z">>
Digits == {"0","1","2","3","4","5","6","7","8","9"}
Range(f) == {f[i] : i \in DOMAIN f}

\* query.substring(0, 50)
Substring(str, from, to) ==
  SubSeq(str, from + 1, IF to < Len(str) THEN to ELSE Len(str))

\* the regular expression /[^a-z0-9]/gi matches the character c
MatchesNonAlnum_CaseSensitive(c) == c \notin Range(LowerCase) \cup Digits
MatchesNonAlnum(c) ==
  c \notin Range(LowerCase) \cup Range(UpperCase) \cup Digits

\* str.replace(/[^a-z0-9]/gi, '_')
ReplaceNonAlnum(str) ==
  [i \in 1 .. Len(str) |-> IF MatchesNonAlnum(str[i]) THEN "_" ELSE str[i]]

\* String.prototype.toLowerCase, on the characters the model uses
LowerOf(c) ==
  IF c \in Range(UpperCase)
  THEN LowerCase[CHOOSE i \in 1 .. Len(UpperCase) : UpperCase[i] = c]
  ELSE IF c = "U+00C9" THEN "U+00E9"
  ELSE c
ToLowerCase(str) == [i \in 1 .. Len(str) |-> LowerOf(str[i])]

\* const sanitizedQuery = query.substring(0, 50).replace(...).toLowerCase()
SanitizedQuery(q) ==
  ToLowerCase(ReplaceNonAlnum(Substring(q, 0, FILENAME_QUERY_CHARS)))

\* --- the clock: instants are milliseconds after CLOCK_START's second
MaxClockTick == 1
CLOCK_START == 99
ISO_SECOND ==
  <<"2","0","2","5","-","0","1","-","0","1","T",
    "0","0",":","0","0",":","0","0">>
DigitChars == <<"0","1","2","3","4","5","6","7","8","9">>
DigitChar(n) == DigitChars[n + 1]

\* Date.prototype.toISOString, for an instant below one second
ToISOString(t) ==
  ISO_SECOND \o <<".", DigitChar(t \div 100), DigitChar((t \div 10) % 10),
                  DigitChar(t % 10), "Z">>

\* str.replace(/[:.]/g, '-')
ReplaceColonDot(str) ==
  [i \in 1 .. Len(str) |-> IF str[i] \in {":", "."} THEN "-" ELSE str[i]]

\* the second new Date() of saveToFile, read `tick` ms after the first
RecordInstant(first, tick) == first + tick

\* fs.mkdir settles; saveToFile reads the clock for the filename, computes
\* the filename, reads the clock again for the record and calls fs.writeFile
Mkdir ==
  /\ Running
  /\ pc = "mkdir"
  /\ \E s \in Settlements, tick \in 0 .. MaxClockTick :
       IF s = "resolved"
       THEN /\ pending' =
                 [sanitizedQuery |-> SanitizedQuery(query),
                  stamp |-> ReplaceColonDot(ToISOString(CLOCK_START)),
                  timestamp |-> ToISOString(RecordInstant(CLOCK_START, tick))]
            /\ Ok("writeFile", <<Ev("mkdir", "output", "ok", 0)>>)
       ELSE /\ tick = 0
            /\ UNCHANGED pending
            /\ Throw(<<Ev("mkdir", "output", "error", 0)>>)
  /\ jitter' = 0
  /\ UNCHANGED <<query, setupVars, loopVars, responseData, files, dom,
                 sigVars, okSteps>>

\* the texts extractResponseText returns in place of an answer
IsSentinel(text) == text \in {EmptySentinel, NotFoundSentinel}

\* fs.writeFile settles; extractAndSaveResponse returns and runScraper
\* starts its delay(5000)
WriteFile_SkipSentinel ==
  /\ Running
  /\ pc = "writeFile"
  /\ \E s \in Settlements :
       IF s = "resolved"
       THEN /\ files' =
                 IF IsSentinel(responseData.text)
                 THEN files
                 ELSE Append(files, [sanitizedQuery |-> pending.sanitizedQuery,
                                     stamp |-> pending.stamp,
                                     query |-> query,
                                     timestamp |-> pending.timestamp,
                                     text |-> responseData.text,
                                     links |-> responseData.links])
            /\ okSteps' = okSteps \cup {"persistence"}
            /\ Ok("keepOpen", <<Ev("writeFile", "", "ok", 0)>>)
       ELSE /\ UNCHANGED <<files, okSteps>>
            /\ Throw(<<Ev("writeFile", "", "error", 0)>>)
  /\ UNCHANGED <<query, setupVars, loopVars, responseData, dom, pending,
                 sigVars, jitter>>
WriteFile ==
  /\ Running
  /\ pc = "writeFile"
  /\ \E s \in Settlements :
       IF s = "resolved"
       THEN /\ files' = Append(files, [sanitizedQuery |-> pending.sanitizedQuery,
                                       stamp |-> pending.stamp,
                                       query |-> query,
                                       timestamp |-> pending.timestamp,
                                       text |-> responseData.text,
                                       links |-> responseData.links])
            /\ okSteps' = okSteps \cup {"persistence"}
            /\ Ok("keepOpen", <<Ev("writeFile", "", "ok", 0)>>)
       ELSE /\ UNCHANGED <<files, okSteps>>
            /\ Throw(<<Ev("writeFile", "", "error", 0)>>)
  /\ UNCHANGED <<query, setupVars, loopVars, responseData, dom, pending,
                 sigVars, jitter>>

SaveToFile == Mkdir \/ WriteFile

\* ------------------------------------------------- runScraper, try's tail
\* await delay(5000) settles and the finally block calls closeBrowser
KeepOpen ==
  /\ Running
  /\ pc = "keepOpen"
  /\ log' = log \o <<Ev("delay", "", "ok", KEEP_OPEN_DELAY)>>
  /\ Finally(exitCode)
  /\ UNCHANGED <<query, setupVars, loopVars, outVars, sigVars, jitter, okSteps>>

\* catch (closeError) { exitCode = 1 }
CleanupFailureCode_Kept(code) == code
CleanupFailureCode(code) == 1

\* the finally block's await closeBrowser(browser) settles, runScraper
\* returns and the .then callback calls process.exit
FinallyClose ==
  /\ Running
  /\ pc = "finallyClose"
  /\ \E s \in Settlements :
       IF s = "resolved"
       THEN /\ globalBrowser' = Null
            /\ okSteps' = okSteps \cup {"cleanup"}
            /\ UNCHANGED exitCode
       ELSE /\ exitCode' = CleanupFailureCode(exitCode)
            /\ UNCHANGED <<globalBrowser, okSteps>>
  /\ exitStatus' = exitCode'
  /\ pc' = "done"
  /\ UNCHANGED <<query, browser, sessionCreated, connected, closeLog, log,
                 loopVars, outVars, sigVars, jitter>>

\* ---------------------------------------------------------- handleInterrupt
\* process.on(signal): the handler runs up to its await, or to process.exit
\* when there is no global browser reference
Signal ==
  /\ Running
  /\ pc \notin {"start", "done"}
  /\ Len(signals) < MaxSignals
  /\ \E sig \in SignalNames :
       signals' = Append(signals, [sig |-> sig, open |-> sessionCreated])
  /\ IF globalBrowser # Null
     THEN /\ closeLog' = Append(closeLog, "handler")
          /\ awaiting' = awaiting + 1
          /\ UNCHANGED exitStatus
     ELSE /\ exitStatus' = EXIT_INTERRUPTED
          /\ UNCHANGED <<closeLog, awaiting>>
  /\ UNCHANGED <<pc, query, setupVars, exitCode, loopVars, log, jitter,
                 okSteps, outVars>>

\* a handler's await closeBrowser(globalBrowser) settles
HandlerResume ==
  /\ Running
  /\ awaiting > 0
  /\ \E s \in Settlements :
       IF s = "resolved"
       THEN globalBrowser' = Null
       ELSE UNCHANGED globalBrowser
  /\ awaiting' = awaiting - 1
  /\ exitStatus' = EXIT_INTERRUPTED
  /\ UNCHANGED <<pc, query, browser, sessionCreated, connected, exitCode,
                 closeLog, signals, loopVars, log, jitter, okSteps, outVars>>

HandleInterrupt == Signal \/ HandlerResume

\* ------------------------------------------------------------ specification
RunScraper ==
  \/ Start
  \/ SetupBrowser
  \/ NavigateToUrl
  \/ ClickSearchButton
  \/ TypeQuery
  \/ SubmitQuery
  \/ WaitForResponseComplete
  \/ ExtractResponseText
  \/ SaveToFile
  \/ KeepOpen
  \/ FinallyClose

Next == RunScraper \/ HandleInterrupt

Spec == Init /\ [][Next]_vars

\* the pipeline alone, with the event loop settling every pending await
SeqSpec == Init /\ [][RunScraper]_vars /\ WF_vars(RunScraper)

\* ------------------------------------- extraction and naming, input by input
MaxBlocks == 2
MaxEarlierTurns == 1
MaxQueryTail == 2

Blocks ==
  { P_HELLO, P_BODY, H2_TITLE, UL_LI, P_SPAN, DIV_SPAN, P_EM_SPAN, PRE_CODE,
    DIV_RAW, DIV_BLANK, SPAN_EMPTY, PILL_A, PILL_RELATIVE, PILL_SECOND_ANCHOR,
    PILL_NO_ANCHOR }
SeqsUpTo(S, n) == UNION { [1 .. k -> S] : k \in 0 .. n }

\* turns that precede the assistant's last turn
OtherTurns ==
  { ArticleOf(TurnTestId("1"), <<H2_TITLE, PILL_SECOND_ANCHOR>>),
    ArticleOf(TurnTestId("3"), <<DIV_RAW>>) }
\* an article that is not a conversation turn
PlainArticle == ArticleOf(NoTestId, <<P_BODY, PILL_A>>)

TestDocuments ==
  { DocumentOf(earlier \o <<ArticleOf(TurnTestId("5"), blocks)>>) :
      earlier \in SeqsUpTo(OtherTurns, MaxEarlierTurns),
      blocks \in SeqsUpTo(Blocks, MaxBlocks) }
  \cup { DocumentOf(<<ArticleOf(TurnTestId("5"), blocks), PlainArticle>>) :
           blocks \in SeqsUpTo(Blocks, 1) }
  \cup { <<>>, DocumentOf(<<PlainArticle>>) }

QueryChars == {"a", "Q", "7", " ", "_", "U+00C9", "?"}
\* one character short of the filename limit
LongPrefix == [i \in 1 .. FILENAME_QUERY_CHARS - 1 |-> "x"]
TestQueries ==
  { prefix \o tail : prefix \in {<<>>, LongPrefix},
                     tail \in SeqsUpTo(QueryChars, MaxQueryTail) } \ {<<>>}

\* the log of a run in which every step up to the wait for the turn article
\* succeeded and the stop button was absent at the first check
ExtractionLog ==
  << Ev("sessions.create", "", "ok", 0),
     Ev("connect", "", "ok", 0),
     Ev("pages", "", "ok", 0),
     Ev("evaluateOnNewDocument", "", "ok", 0),
     Ev("goto", "https://chatgpt.com/", "ok", 60000),
     Ev("waitForSelector", SEARCH_BUTTON, "ok", 30000),
     Ev("click", SEARCH_BUTTON, "ok", 0),
     Ev("waitForSelector", PROMPT_TEXTAREA, "ok", 30000),
     Ev("click", PROMPT_TEXTAREA, "ok", 0),
     Ev("type", PROMPT_TEXTAREA, "ok", KeystrokeDelay(0)),
     Ev("waitForSelector", SUBMIT_BUTTON, "ok", 10000),
     Ev("click", SUBMIT_BUTTON, "ok", 0),
     Ev("$", "tick", "absent", 0),
     Ev("delay", "", "ok", DEBOUNCE_DELAY),
     Ev("$", "confirm", "absent", 0),
     Ev("COMPLETE", "", "ok", 0),
     Ev("delay", "", "ok", SETTLE_DELAY),
     Ev("waitForSelector", TURN_ARTICLE, "ok", 10000) >>

\* the pipeline suspended on page.evaluate, or on fs.writeFile after the
\* extraction of a one-paragraph answer, for each query
FnInit ==
  /\ browser = Browser
  /\ globalBrowser = Browser
  /\ exitCode = 0
  /\ exitStatus = NotExited
  /\ sessionCreated = TRUE
  /\ connected = TRUE
  /\ closeLog = <<>>
  /\ awaiting = 0
  /\ signals = <<>>
  /\ stopButtonExists = FALSE
  /\ checkCount = 1
  /\ jitter = 0
  /\ files = <<>>
  /\ \/ /\ pc = "evaluate"
        /\ pending = NoPending
        /\ query = <<"H", "i">>
        /\ dom = <<>>
        /\ responseData = NoResult
        /\ log = ExtractionLog
        /\ okSteps = {"setup", "navigation", "dispatch", "completion"}
     \/ /\ pc = "writeFile"
        /\ query \in TestQueries
        /\ dom = HelloDocument
        /\ responseData = [text |-> Hello, links |-> <<>>]
        /\ \E tick \in 0 .. MaxClockTick :
             pending =
               [sanitizedQuery |-> SanitizedQuery(query),
                stamp |-> ReplaceColonDot(ToISOString(CLOCK_START)),
                timestamp |-> ToISOString(RecordInstant(CLOCK_START, tick))]
        /\ log = ExtractionLog \o <<Ev("evaluate", "", "ok", 0),
                                     Ev("mkdir", "output", "ok", 0)>>
        /\ okSteps = {"setup", "navigation", "dispatch", "completion",
                      "extraction"}

TestExtraction == ExtractionOn(TestDocuments)
FnEvaluate == PageEvaluate(TestExtraction)
FnNext == FnEvaluate \/ WriteFile
FnSpec == FnInit /\ [][FnNext]_vars
\* ------------------------------------------------------ derived histories
\* index of the first log entry with this op and arg, or 0
FirstIndex(op, arg) ==
  LET at == {i \in 1 .. Len(log) : log[i].op = op /\ log[i].arg = arg}
  IN  IF at = {} THEN 0 ELSE CHOOSE i \in at : \A j \in at : i <= j

SubmitClickIdx == FirstIndex("click", SUBMIT_BUTTON)
TurnWaitIdx == FirstIndex("waitForSelector", TURN_ARTICLE)
CompleteIdx == FirstIndex("COMPLETE", "")

\* what waitForResponseComplete did: the log between the submit click and
\* extraction's wait for a conversation turn
WaitLog ==
  IF SubmitClickIdx = 0 THEN <<>>
  ELSE SubSeq(log, SubmitClickIdx + 1,
              IF TurnWaitIdx = 0 THEN Len(log) ELSE TurnWaitIdx - 1)

\* the settled page.$ calls, in order
Obs == SelectSeq(log, LAMBDA e : e.op = "$")

TickObs(res) == Ev("$", "tick", res, 0)
ConfirmObs(res) == Ev("$", "confirm", res, 0)
Slept(ms) == Ev("delay", "", "ok", ms)
CompleteLine == Ev("COMPLETE", "", "ok", 0)

\* the polling loop was left normally (the machine is COMPLETE)
LoopExited == pc = "settle" \/ "completion" \in okSteps
\* extractResponseText has been entered
ExtractionStarted == "completion" \in okSteps
\* a tick found the indicator absent and so did its confirmation check
AbsentTwice ==
  LET obs == Obs
  IN  \E i \in 1 .. Len(obs) - 1 :
        obs[i] = TickObs("absent") /\ obs[i + 1] = ConfirmObs("absent")
AllPresent ==
  LET obs == Obs
  IN  \A i \in 1 .. Len(obs) : obs[i].res = "present"
NoSignal == signals = <<>>
Exited == exitStatus # NotExited
IsPrefix(a, b) == Len(a) <= Len(b) /\ a = SubSeq(b, 1, Len(a))

\* ------------------------------------------------------------------ claims
\* C1: the loop is never left while every observation found the indicator
\* present; whenever it is left, the last two observations are a tick and
\* its confirmation, both absent, with exactly one 500ms pause between them.
C1_DebouncedCompletion ==
  /\ (AllPresent => ~LoopExited)
  /\ LoopExited =>
       LET c == CompleteIdx
           obs == Obs
       IN  /\ c >= 4
           /\ log[c - 3] = TickObs("absent")
           /\ log[c - 2] = Slept(500)
           /\ log[c - 1] = ConfirmObs("absent")
           /\ obs[Len(obs)] = log[c - 1]

C1_Witness ==
  /\ LoopExited
  /\ Len(Obs) >= 4
  /\ \E i \in 1 .. Len(Obs) : Obs[i] = ConfirmObs("present")

\* the run of the loop when the indicator is present on the first n ticks
RECURSIVE PresentTicks(_)
PresentTicks(n) ==
  IF n = 0 THEN <<>>
  ELSE <<TickObs("present"), Slept(CHECK_INTERVAL)>> \o PresentTicks(n - 1)

ExpectedWaitLog(n) ==
  PresentTicks(n) \o
  <<TickObs("absent"), Slept(500), ConfirmObs("absent"), CompleteLine, Slept(2000)>>

\* the observations so far are: present on the first n ticks, absent after
PresentThenAbsent(n) ==
  LET obs == Obs
  IN  \A i \in 1 .. Len(obs) :
        obs[i].res = IF i <= n THEN "present" ELSE "absent"

\* C2: when the indicator is present on exactly the first n ticks and absent
\* afterwards, the loop sleeps n poll intervals, pauses 500ms once, completes,
\* sleeps 2000ms once, and only then extraction starts.
C2_Timeline ==
  \A n \in 0 .. MaxChecks :
    PresentThenAbsent(n) =>
      /\ IsPrefix(WaitLog, ExpectedWaitLog(n))
      /\ ExtractionStarted => WaitLog = ExpectedWaitLog(n)
      /\ Len(Obs) >= n + 2 => LoopExited

C2_Witness ==
  /\ pc = "waitTurn"
  /\ WaitLog = <<TickObs("present"), Slept(1000), TickObs("present"), Slept(1000),
                 TickObs("absent"), Slept(500), ConfirmObs("absent"),
                 CompleteLine, Slept(2000)>>

\* C3: a tick that finds the indicator, and a confirmation check that finds
\* it again after an absent tick, both leave the machine in GENERATING with
\* no error; the next steps are one poll-interval sleep and another tick.
C3_StaysGenerating ==
  [][ /\ (pc \in {"tick", "confirm"} /\ Len(log') > Len(log)
            /\ log'[Len(log) + 1].res = "present")
         => /\ pc' = "pollSleep"
            /\ stopButtonExists'
            /\ Len(log') = Len(log) + 1
            /\ exitCode' = exitCode
            /\ exitStatus' = exitStatus
      /\ (pc = "pollSleep" /\ pc' # pc)
         => /\ pc' = "tick"
            /\ log' = Append(log, Slept(CHECK_INTERVAL))
            /\ checkCount' = checkCount + 1
            /\ stopButtonExists'
            /\ exitCode' = exitCode
    ]_vars

C3_Witness ==
  \E i \in 1 .. Len(log) - 2 :
    /\ log[i] = ConfirmObs("present")
    /\ log[i + 1] = Slept(CHECK_INTERVAL)
    /\ log[i + 2].op = "$"
    /\ log[i + 2].arg = "tick"
\* the pipeline stopped on an error raised inside waitForResponseComplete
LoopThrew ==
  /\ "dispatch" \in okSteps
  /\ ~LoopExited
  /\ pc \in {"finallyClose", "done"}

\* C4: the loop has no iteration or time bound.  It is left normally exactly
\* when a tick and its confirmation check both found the indicator absent,
\* so never while every observation found it present; the only error it
\* raises is a rejected page.$ (never a timeout); and once both checks found
\* the indicator absent, waitForResponseComplete returns.
C4_Unbounded ==
  /\ [](LoopExited <=> AbsentTwice)
  /\ [](AllPresent => ~LoopExited /\ ~LoopThrew)
  /\ [](LoopThrew => Obs # <<>> /\ Obs[Len(Obs)].res = "error")
  /\ (AbsentTwice ~> ExtractionStarted)

C4_Witness ==
  /\ pc = "pollSleep"
  /\ checkCount = MaxChecks
  /\ Len(Obs) = MaxChecks
  /\ AllPresent

\* C5: the steps never overlap and run in order: the submit click has
\* settled before the first page.$ is called, both absent observations are
\* in before extraction waits for a turn, and extraction has returned
\* before mkdir or writeFile is called.
C5_Ordering ==
  LET click == SubmitClickIdx
      done == CompleteIdx
      turn == TurnWaitIdx
      eval == FirstIndex("evaluate", "")
      mkdir == FirstIndex("mkdir", "output")
  IN  /\ (pc = "tick" \/ \E i \in 1 .. Len(log) : log[i].op = "$") =>
           /\ click > 0
           /\ log[click].res = "ok"
           /\ \A i \in 1 .. click : log[i].op # "$"
      /\ (pc = "waitTurn" \/ turn > 0) =>
           /\ AbsentTwice
           /\ done > 0
           /\ turn > 0 => done < turn
           /\ \A i \in 1 .. Len(log) : log[i].op = "$" => i < done
      /\ (pc \in {"mkdir", "writeFile"} \/ mkdir > 0 \/ files # <<>>) =>
           /\ "extraction" \in okSteps
           /\ turn > 0
           /\ eval > turn
           /\ log[eval].res = "ok"
           /\ \A i \in 1 .. Len(log) :
                log[i].op \in {"mkdir", "writeFile"} => i > eval

C5_Witness ==
  /\ files # <<>>
  /\ Len(Obs) >= 3

\* C6: on a run without signals, a session that was created has had
\* closeBrowser called on it by the time the process exits.
C6_ReleasedOnExit ==
  (Exited /\ NoSignal /\ sessionCreated) => closeLog # <<>>

\* C7: closeBrowser is called at most once on the session.
C7_ReleasedOnce == Len(closeLog) <= 1

\* C8: when a signal was handled while a session was open, the handler has
\* called closeBrowser on it by the time the process exits.
C8_InterruptReleases ==
  (Exited /\ \E i \in 1 .. Len(signals) : signals[i].open) =>
    \E j \in 1 .. Len(closeLog) : closeLog[j] = "handler"

\* C9: without signals the process exits with 0 exactly when all seven
\* steps, cleanup included, succeeded, and with 1 otherwise.
C9_ExitCode ==
  (Exited /\ NoSignal) =>
    /\ exitStatus \in {0, 1}
    /\ exitStatus = 0 <=> okSteps = Steps

C9_Witness ==
  /\ Exited
  /\ NoSignal
  /\ exitStatus = 1
  /\ okSteps = Steps \ {"cleanup"}

\* C10: once a signal has been handled the process exits with 130 only.
C10_InterruptExitCode ==
  (Exited /\ ~NoSignal) => exitStatus = EXIT_INTERRUPTED
\* ------------------------------------------------- claims C11..C20
\* C11: a run that exits with code 1 has written no file.
C11_NoFileOnFailure == exitStatus = 1 => files = <<>>

\* C12: with the query argument missing, runScraper returns 1 at once: no
\* setup call, no session, no browser reference, no closeBrowser, no file,
\* and the process exits with code 1 before any signal can be handled.
C12_MissingQuery ==
  (query = <<>> /\ pc # "start") =>
    /\ pc = "done"
    /\ exitStatus = 1
    /\ log = <<>>
    /\ ~sessionCreated
    /\ ~connected
    /\ browser = Null
    /\ globalBrowser = Null
    /\ closeLog = <<>>
    /\ files = <<>>
    /\ signals = <<>>

C12_Witness == query = <<>> /\ exitStatus = 1

DispatchTargets == {SEARCH_BUTTON, PROMPT_TEXTAREA, SUBMIT_BUTTON}
IsDispatchOp(e) ==
  e.op \in {"waitForSelector", "click", "type"} /\ e.arg \in DispatchTargets

\* C13: when a page operation of clickSearchButton, typeQuery or submitQuery
\* rejects, it is the last page operation of the run and was attempted once,
\* the error reaches runScraper's catch, and completion detection,
\* extraction and persistence never start.
C13_DispatchAborts ==
  \A i \in 1 .. Len(log) :
    (IsDispatchOp(log[i]) /\ log[i].res = "error") =>
      /\ i = Len(log)
      /\ \A j \in 1 .. Len(log) :
           (log[j].op = log[i].op /\ log[j].arg = log[i].arg) => j = i
      /\ pc \in {"finallyClose", "done"}
      /\ exitCode = 1
      /\ okSteps \cap {"dispatch", "completion", "extraction", "persistence"} = {}
      /\ files = <<>>

C13_Witness ==
  /\ log # <<>>
  /\ log[Len(log)] = Ev("type", PROMPT_TEXTAREA, "error", log[Len(log)].ms)
  /\ exitStatus = 1

\* ------------------------------------------------------------ claims C14..C20
\* what the filename token must hold at the place of the query character c
ExpectedTokenChar(c) ==
  IF c \in Range(LowerCase) \cup Digits THEN c
  ELSE IF c \in Range(UpperCase)
  THEN LowerCase[CHOOSE i \in 1 .. Len(UpperCase) : UpperCase[i] = c]
  ELSE "_"

\* C14: the filename token saveToFile computes for a query q has length
\* min(len(q), 50), holds only characters of [a-z0-9_], and is, position by
\* position, the first 50 characters of q with every character outside
\* [A-Za-z0-9] replaced by '_' and every letter lowercased.
C14_FilenameToken ==
  \A k \in 1 .. Len(files) :
    LET q == files[k].query
        token == files[k].sanitizedQuery
    IN  /\ Len(token) = IF Len(q) < 50 THEN Len(q) ELSE 50
        /\ Len(token) <= 50
        /\ \A i \in 1 .. Len(token) :
             /\ token[i] \in Range(LowerCase) \cup Digits \cup {"_"}
             /\ token[i] = ExpectedTokenChar(q[i])

\* a 51-character query ending in "Q?" has been written under a 50-character
\* token ending in "q"
C14_Witness ==
  /\ files # <<>>
  /\ Len(files[1].query) = 51
  /\ files[1].query[50] = "Q"
  /\ Len(files[1].sanitizedQuery) = 50
  /\ files[1].sanitizedQuery[50] = "q"

\* page.evaluate has resolved and extractResponseText has returned
Extracted == "extraction" \in okSteps

\* C15: every non-throwing return of extractResponseText has a text that is
\* neither empty nor whitespace-only; when the text recovered from the
\* selected turn is empty or whitespace-only the result is exactly the
\* sentinel "Error: Empty response extracted" with no links, whatever links
\* the turn held, and nothing is thrown.
C15_NonEmptyText ==
  Extracted =>
    LET recovered == EvaluateInPage(dom)
    IN  /\ responseData.text # <<>>
        /\ \E i \in 1 .. Len(responseData.text) :
             responseData.text[i] \notin Whitespace
        /\ (\A i \in 1 .. Len(recovered.text) : recovered.text[i] \in Whitespace)
             => /\ responseData = [text |-> EmptySentinel, links |-> <<>>]
                /\ exitCode = 0
                /\ log[Len(log)].res = "ok"

\* a turn with a citation link and no text was extracted as the sentinel
C15_Witness ==
  /\ Extracted
  /\ pc = "mkdir"
  /\ EvaluateInPage(dom).text = <<>>
  /\ EvaluateInPage(dom).links # <<>>
  /\ responseData = [text |-> EmptySentinel, links |-> <<>>]

\* the selected turn of the document d: its last conversation turn, 0 if none
LastTurn(d) ==
  LET turns == {i \in 1 .. Len(d) : IsTurn(d[i])}
  IN  IF turns = {} THEN 0
      ELSE CHOOSE i \in turns : \A j \in turns : j <= i

\* the citation markers of the selected turn, in document order
Markers(d) ==
  LET last == LastTurn(d)
  IN  IF last = 0 THEN <<>>
      ELSE SelectSeq(Indices(d), LAMBDA i : /\ IsCitationPill(d[i])
                                            /\ IsDescendant(d, i, last))

\* the anchors inside the marker m, in document order
AnchorsOf(d, m) ==
  SelectSeq(Indices(d), LAMBDA i : IsDescendant(d, i, m) /\ d[i].tag = "a")

\* the markers that have an anchor with a non-empty URL
MarkersWithUrl(d) ==
  SelectSeq(Markers(d), LAMBDA m :
    \E k \in 1 .. Len(AnchorsOf(d, m)) : Href(d[AnchorsOf(d, m)[k]]) # NoHref)

\* the markers whose first anchor has a non-empty URL
MarkersWithFirstUrl(d) ==
  SelectSeq(Markers(d), LAMBDA m :
    AnchorsOf(d, m) # <<>> /\ Href(d[AnchorsOf(d, m)[1]]) # NoHref)

FirstAnchorUrls(d, markers) ==
  [k \in 1 .. Len(markers) |-> Href(d[AnchorsOf(d, markers[k])[1]])]

\* C16, as stated: the links returned by extraction are the resolved URL of
\* the first anchor of each citation marker of the selected turn that has an
\* anchor with a non-empty URL, in document order, duplicates kept.
C16_LinksAsStated ==
  Extracted => responseData.links = FirstAnchorUrls(dom, MarkersWithUrl(dom))

\* C16, amended: whenever the returned text is not the empty-response
\* sentinel, the links returned are the resolved URL of the first anchor of
\* each citation marker of the selected turn whose first anchor has a
\* non-empty URL, in document order, never reordered and never deduplicated.
C16_LinksOfMarkers ==
  (Extracted /\ responseData.text # EmptySentinel) =>
    responseData.links = FirstAnchorUrls(dom, MarkersWithFirstUrl(dom))

\* two markers pointing at the same URL gave two equal entries
C16_Witness ==
  /\ Extracted
  /\ Len(Markers(dom)) = 2
  /\ responseData.links = <<A_EXAMPLE, A_EXAMPLE>>

\* the document that holds nothing but the subtree of d rooted at node root
Subtree(d, root) ==
  LET members == {i \in 1 .. Len(d) : i = root \/ IsDescendant(d, i, root)}
  IN  [k \in 1 .. Cardinality(members) |->
         [d[root + k - 1] EXCEPT !.parent = IF k = 1 THEN 0 ELSE @ - (root - 1)]]

FirstTurn(d) == CHOOSE i \in 1 .. Len(d) : IsTurn(d[i]) /\ \A j \in 1 .. i - 1 : ~IsTurn(d[j])

\* C17: with one turn or more in the document, the text and links returned
\* are those of the last conversation turn in document order alone: they are
\* what extraction returns for a document holding only that turn.
C17_LastTurnOnly ==
  (Extracted /\ LastTurn(dom) # 0) =>
    responseData =
      ExtractionResult(EvaluateInPage(Subtree(dom, LastTurn(dom))))

\* two turns with different contents were present, and the result has the
\* links of the last one and differs from what the first one alone gives
C17_Witness ==
  /\ Extracted
  /\ LastTurn(dom) # 0
  /\ FirstTurn(dom) # LastTurn(dom)
  /\ responseData.links = <<A_EXAMPLE>>
  /\ responseData #
       ExtractionResult(EvaluateInPage(Subtree(dom, FirstTurn(dom))))

\* the blocks of the selected turn are exactly `blocks`
SelectedTurnIs(blocks) ==
  /\ LastTurn(dom) # 0
  /\ Subtree(dom, LastTurn(dom)) = ArticleOf(dom[LastTurn(dom)].testid, blocks)

\* str holds t, a line break, and a run of exactly Len(t) '=' characters
HasUnderlined(str, t) ==
  LET n == Len(t)
  IN  \E i \in 0 .. Len(str) - (2 * n + 1) :
        /\ SubSeq(str, i + 1, i + n) = t
        /\ str[i + n + 1] = "\n"
        /\ \A k \in 1 .. n : str[i + n + 1 + k] = "="
        /\ (i + 2 * n + 1 = Len(str) \/ str[i + 2 * n + 2] # "=")

TitleUnderlined == Title \o <<"\n", "=", "=", "=", "=", "=">>

\* C18: every heading of the selected turn whose trimmed text t is not empty
\* appears in the extracted text as t, a line break and a run of '=' of
\* length len(t); fragments follow document order: heading "Title" then
\* paragraph "Body" gives "Title", its 5-character underline, then "Body",
\* and the paragraph first gives "Body" first.
C18_HeadingUnderline ==
  (Extracted /\ LastTurn(dom) # 0) =>
    /\ \A h \in 1 .. Len(dom) :
         LET t == Trim(TextContent(dom, h))
         IN  ( /\ IsDescendant(dom, h, LastTurn(dom))
               /\ dom[h].tag \in HeadingTags
               /\ t # <<>> )
             => HasUnderlined(responseData.text, t)
    /\ SelectedTurnIs(<<H2_TITLE, P_BODY>>) =>
         responseData.text = TitleUnderlined \o <<"\n", "\n">> \o Body
    /\ SelectedTurnIs(<<P_BODY, H2_TITLE>>) =>
         responseData.text = Body \o <<"\n", "\n">> \o TitleUnderlined

\* the heading "Title" followed by the paragraph "Body" was extracted
C18_Witness ==
  /\ Extracted
  /\ SelectedTurnIs(<<H2_TITLE, P_BODY>>)
  /\ HasUnderlined(responseData.text, Title)
  /\ responseData.text[Len(responseData.text)] = "y"

\* the recognized elements of the selected turn, in document order
Recognized(d) ==
  LET last == LastTurn(d)
  IN  SelectSeq(Indices(d), LAMBDA i : /\ d[i].tag \in TextTags
                                       /\ IsDescendant(d, i, last))

\* what a paragraph or inline span must contribute
PlainContribution(d, el) ==
  LET t == Trim(TextContent(d, el))
  IN  IF t # <<>> /\ d[d[el].parent].tag \notin {"p", "li"} \cup HeadingTags
      THEN <<"\n">> \o t
      ELSE <<>>

\* the text expected of the selected turn when paragraphs and spans
\* contribute PlainContribution and every other element what it emits
ExpectedWithPlain(d) ==
  LET elements == Recognized(d)
  IN  Trim(Flatten([k \in 1 .. Len(elements) |->
                      IF d[elements[k]].tag \in {"p", "span"}
                      THEN PlainContribution(d, elements[k])
                      ELSE Fragment(d, elements[k])]))

\* C19: a paragraph or span contributes a line break and its trimmed text
\* exactly when that text is not empty and its immediate parent is not a
\* paragraph, heading or list item; a turn holding the single paragraph
\* "Hello" gives text "Hello" and no links.
C19_PlainElements ==
  (Extracted /\ LastTurn(dom) # 0) =>
    /\ Recognized(dom) # <<>> =>
         LET expected == ExpectedWithPlain(dom)
         IN  responseData.text = IF expected = <<>> THEN EmptySentinel
                                 ELSE expected
    /\ SelectedTurnIs(<<P_HELLO>>) =>
         responseData = [text |-> Hello, links |-> <<>>]

\* a span directly inside a paragraph stayed silent, a span inside an <em>
\* inside a paragraph was emitted after its paragraph
C19_Witness ==
  /\ Extracted
  /\ SelectedTurnIs(<<P_SPAN, P_EM_SPAN>>)
  /\ responseData.text =
       <<"a", " ", "b", "\n", "d", "e", "e", "p", "\n", "d", "e", "e", "p">>

\* C20: a selected turn without any recognized element gives its whole
\* flattened text, trimmed and unformatted; with one recognized element or
\* more the flattened text is never used, even when no recognized element
\* has any text to emit.
C20_Fallback ==
  (Extracted /\ LastTurn(dom) # 0) =>
    LET flat == Trim(TextContent(dom, LastTurn(dom)))
        elements == Recognized(dom)
        silent == \A k \in 1 .. Len(elements) :
                    Trim(TextContent(dom, elements[k])) = <<>>
    IN  /\ elements = <<>> =>
             responseData.text = IF flat = <<>> THEN EmptySentinel ELSE flat
        /\ (elements # <<>> /\ silent) =>
             responseData.text = EmptySentinel
        /\ SelectedTurnIs(<<DIV_RAW>>) => responseData.text = RawText

\* a turn whose only content is the text of a <div> gave that text, trimmed
C20_Witness ==
  /\ Extracted
  /\ SelectedTurnIs(<<DIV_RAW>>)
  /\ Recognized(dom) = <<>>
  /\ responseData = [text |-> RawText, links |-> <<>>]

\* ------------------------------------------------------------ claims C21..C26
\* the recognized element el lies inside the element anc of the selected
\* turn, and anc is a paragraph, heading or list item, or a pre holding the
\* code element el
CoveredBy(d, el, anc) ==
  /\ IsDescendant(d, anc, LastTurn(d))
  /\ IsDescendant(d, el, anc)
  /\ \/ d[anc].tag \in {"p", "li"} \cup HeadingTags
     \/ d[anc].tag = "pre" /\ d[el].tag = "code"

\* C21: a recognized element nested, at any depth, in a paragraph, heading
\* or list item (or a code element in a pre element) that emits its text
\* emits nothing itself, so no text is emitted twice because of nesting.
C21_NoDoubleEmission ==
  (Extracted /\ LastTurn(dom) # 0) =>
    LET elements == Recognized(dom)
    IN  \A k \in 1 .. Len(elements) : \A anc \in 1 .. Len(dom) :
          (CoveredBy(dom, elements[k], anc) /\ Fragment(dom, anc) # <<>>)
            => Fragment(dom, elements[k]) = <<>>

\* the page operations of the dispatch step, in the order they settled
DispatchLog == SelectSeq(log, IsDispatchOp)

\* wait(search) -> click(search) -> wait(input) -> click(input) ->
\* type(query) -> wait(submit) -> click(submit)
DispatchOrder ==
  << <<"waitForSelector", SEARCH_BUTTON>>, <<"click", SEARCH_BUTTON>>,
     <<"waitForSelector", PROMPT_TEXTAREA>>, <<"click", PROMPT_TEXTAREA>>,
     <<"type", PROMPT_TEXTAREA>>,
     <<"waitForSelector", SUBMIT_BUTTON>>, <<"click", SUBMIT_BUTTON>> >>

\* C22: the page operations of dispatch follow the fixed order, each one
\* attempted only after the one before it succeeded; a click or a type on a
\* target happens only after the wait for that same selector succeeded
\* earlier in the run.
C22_DispatchOrder ==
  LET ops == DispatchLog
  IN  /\ Len(ops) <= Len(DispatchOrder)
      /\ \A i \in 1 .. Len(ops) :
           /\ <<ops[i].op, ops[i].arg>> = DispatchOrder[i]
           /\ i < Len(ops) => ops[i].res = "ok"
           /\ ops[i].op \in {"click", "type"} =>
                \E j \in 1 .. i - 1 :
                  /\ ops[j].op = "waitForSelector"
                  /\ ops[j].arg = ops[i].arg
                  /\ ops[j].res = "ok"

\* all seven operations of dispatch were performed and succeeded
C22_Witness ==
  /\ Len(DispatchLog) = 7
  /\ DispatchLog[7] = Ev("click", SUBMIT_BUTTON, "ok", 0)
  /\ "dispatch" \in okSteps

\* the 10 s wait for a conversation turn rejected
TurnWaitFailed ==
  \E i \in 1 .. Len(log) :
    log[i] = Ev("waitForSelector", TURN_ARTICLE, "error", 10000)

\* C23: when the wait for a conversation turn rejects, extractResponseText
\* throws instead of returning a sentinel: page.evaluate is never run,
\* nothing is written, the finally block calls closeBrowser on the session,
\* and the run exits with 1 (130 only when a signal handler exits first).
C23_NoTurnThrows ==
  TurnWaitFailed =>
    /\ log[Len(log)] = Ev("waitForSelector", TURN_ARTICLE, "error", 10000)
    /\ \A i \in 1 .. Len(log) : log[i].op \notin {"evaluate", "mkdir", "writeFile"}
    /\ responseData = NoResult
    /\ dom = <<>>
    /\ files = <<>>
    /\ okSteps \cap {"extraction", "persistence"} = {}
    /\ exitCode = 1
    /\ pc \in {"finallyClose", "done"}
    /\ \E j \in 1 .. Len(closeLog) : closeLog[j] = "finally"
    /\ Exited => exitStatus \in {1, EXIT_INTERRUPTED}
    /\ (Exited /\ NoSignal) => exitStatus = 1

\* the wait rejected and the run, without any signal, exited with 1 after
\* the finally block's closeBrowser resolved
C23_Witness ==
  /\ TurnWaitFailed
  /\ NoSignal
  /\ exitStatus = 1
  /\ "cleanup" \in okSteps
  /\ globalBrowser = Null

\* C24: the timestamp fragment of a written file's name is the record's own
\* timestamp field with every ':' and '.' replaced by '-'.
C24_FilenameTimestamp ==
  \A k \in 1 .. Len(files) :
    /\ Len(files[k].stamp) = Len(files[k].timestamp)
    /\ \A i \in 1 .. Len(files[k].stamp) :
         files[k].stamp[i] = IF files[k].timestamp[i] \in {":", "."}
                             THEN "-"
                             ELSE files[k].timestamp[i]

\* the first tick and its confirmation check both found no indicator
AbsentAtOnce ==
  LET obs == Obs
  IN  /\ Len(obs) >= 2
      /\ obs[1] = TickObs("absent")
      /\ obs[2] = ConfirmObs("absent")

\* C25: completion does not need the indicator to have been seen: when the
\* first tick and its confirmation find it absent, the loop is left after
\* that single pass, with one 500ms pause and no poll-interval sleep, and
\* extraction then returns what the last turn of the page holds.
C25_CompleteWithoutGeneration ==
  AbsentAtOnce =>
    LET w == WaitLog
    IN  /\ Len(Obs) = 2
        /\ checkCount = 1
        /\ LoopExited
        /\ IsPrefix(<<TickObs("absent"), Slept(500), ConfirmObs("absent"),
                      CompleteLine>>, w)
        /\ \A i \in 1 .. Len(w) : w[i] # Slept(CHECK_INTERVAL)
        /\ Cardinality({i \in 1 .. Len(w) : w[i] = Slept(500)}) = 1
        /\ (Extracted /\ LastTurn(dom) # 0) =>
             responseData =
               ExtractionResult(EvaluateInPage(Subtree(dom, LastTurn(dom))))

\* the indicator was never seen, and the answer of the last of two turns
\* was extracted
C25_Witness ==
  /\ AbsentAtOnce
  /\ Extracted
  /\ LastTurn(dom) # 0
  /\ FirstTurn(dom) # LastTurn(dom)
  /\ responseData = [text |-> Hello, links |-> <<<<BASE_URL, "/cite">>>>]

\* extractResponseText returned one of its sentinel texts
SentinelReturned ==
  /\ "extraction" \in okSteps
  /\ IsSentinel(responseData.text)

\* no awaited operation of the pipeline has rejected
NoFailure == \A i \in 1 .. Len(log) : log[i].res # "error"

\* C26: a sentinel result is a success for the pipeline.  The text is
\* "Error: Could not find assistant response article" exactly when the
\* evaluated page held no turn and "Error: Empty response extracted"
\* otherwise, with no links; the return raises nothing; a resolved
\* writeFile has written exactly one record holding that text; and a run
\* with no rejected operation, no signal and a resolved close exits with 0.
C26_SentinelIsSuccess ==
  SentinelReturned =>
    /\ responseData.text = NotFoundSentinel <=> LastTurn(dom) = 0
    /\ responseData.links = <<>>
    /\ NoFailure => pc \notin {"evaluate", "waitTurn"}
    /\ (NoFailure /\ pc # "done") => exitCode = 0
    /\ Len(files) <= 1
    /\ files # <<>> <=> "persistence" \in okSteps
    /\ "persistence" \in okSteps =>
         /\ files[1].text = responseData.text
         /\ files[1].links = <<>>
         /\ files[1].query = query
         /\ log[Len(log)].op \in {"writeFile", "delay"}
    /\ (Exited /\ NoSignal /\ NoFailure /\ "cleanup" \in okSteps) =>
         /\ exitStatus = 0
         /\ Len(files) = 1
         /\ IsSentinel(files[1].text)

\* a blank answer was extracted, its sentinel was saved and the run
\* exited with 0
C26_Witness ==
  /\ Exited
  /\ exitStatus = 0
  /\ LastTurn(dom) # 0
  /\ responseData.text = EmptySentinel
  /\ Len(files) = 1
  /\ files[1].text = EmptySentinel

\* the same for a page that held no turn when it was evaluated
C26_WitnessNoTurn ==
  /\ Exited
  /\ exitStatus = 0
  /\ dom = <<>>
  /\ Len(files) = 1
  /\ files[1].text = NotFoundSentinel
====
